---- MODULE Spec2Model ----
(***************************************************************************)
(* The force-directed network layout of @nivo/network:                     *)
(*   - hooks.ts         computeForces, useNodeColor, useLinkThickness and  *)
(*                      the useNetwork hook (a layout effect followed by   *)
(*                      two memoised styling maps);                        *)
(*   - NetworkNodes.tsx the keyed enter/update/leave transition of nodes.  *)
(*                                                                         *)
(* JavaScript objects are records whose DOMAIN is the set of own           *)
(* properties, arrays are sequences, and object identity is explicit:      *)
(* a node object is named by a reference, either to the i-th object of the *)
(* caller's `nodes` array or to the i-th object a layout run allocated.    *)
(* d3-force and react-spring are libraries; the parts of them the hook     *)
(* calls are modelled by what they do to the objects they are handed, with *)
(* d3's floating point arithmetic replaced by integer arithmetic.          *)
(***************************************************************************)
EXTENDS Integers, Sequences, FiniteSets, TLC

VARIABLES
    props,         \* the props of the latest render of useNetwork (caller-owned objects)
    mounted,       \* "mounted" | "crashed": an effect that throws unmounts the component
    effectPending, \* the latest render scheduled the layout effect (a dependency changed)
    statePending,  \* a state update is waiting for its re-render
    currentNodes,  \* useState: Null or Arr(references to the run's node objects)
    currentLinks,  \* useState: Null or Arr(link objects of the run)
    heap,          \* the node objects, by generation (one per array of nodes allocated)
    enhancedNodes, \* useMemo: Null or Arr(styled node records)
    enhancedLinks, \* useMemo: Null or Arr(styled link records)
    ticks,         \* simulation steps executed by the latest effect
    transitions    \* NetworkNodes: the keyed transitions react-spring holds

vars == <<props, mounted, effectPending, statePending, currentNodes, currentLinks,
          heap, enhancedNodes, enhancedLinks, ticks, transitions>>

hookVars == <<props, mounted, effectPending, statePending, currentNodes, currentLinks,
              heap, enhancedNodes, enhancedLinks, ticks>>

----------------------------------------------------------------------------
(* Bounds of the model. *)

\* largest `iterations` a caller passes
MaxIterations == 2

\* ids a caller gives its nodes
NodeIds == {"a", "b"}

----------------------------------------------------------------------------
(* JavaScript values.  A value whose type the code inspects (typeof,    *)
(* isNumber, isString) carries it in `type`; numbers the code only passes  *)
(* on to d3 and the ids of nodes are plain integers and strings.           *)

Null == [type |-> "null"]
Undefined == [type |-> "undefined"]
Arr(s) == [type |-> "array", items |-> s]
Num(n) == [type |-> "number", value |-> n]
Str(s) == [type |-> "string", value |-> s]
Fn(name) == [type |-> "function", fn |-> name]

\* IEEE NaN, kept apart from every integer the model computes
NaN == 0 - 1000000
IsNaN(v) == v = NaN

Plus(a, b) == IF IsNaN(a) \/ IsNaN(b) THEN NaN ELSE a + b
Minus(a, b) == IF IsNaN(a) \/ IsNaN(b) THEN NaN ELSE a - b
Times(a, b) == IF IsNaN(a) \/ IsNaN(b) THEN NaN ELSE a * b
\* division, rounded towards minus infinity
Div(a, b) == IF IsNaN(a) \/ IsNaN(b) THEN NaN ELSE a \div b
Abs(a) == IF IsNaN(a) THEN NaN ELSE IF a < 0 THEN 0 - a ELSE a

\* a number property of an object, NaN when the object has no such property
\* (d3 tests isNaN(node.x), which is true of undefined)
NumField(obj, f) == IF f \in DOMAIN obj THEN obj[f] ELSE NaN

\* { ...obj, ...extra }
Merge(obj, extra) == extra @@ obj

\* { ...obj, f: v }
With(obj, f, v) == (f :> v) @@ obj

\* the sequence with these elements, as a tuple
Tuple(elements) == elements \o <<>>

\* unary plus
ToNumber(v) ==
    CASE v.type = "number" -> v.value
      [] v.type = "null" -> 0
      [] v.type = "boolean" -> IF v.value THEN 1 ELSE 0
      [] OTHER -> NaN

\* lodash get(object, path) for a one-segment path
Get(obj, path) == IF path \in DOMAIN obj THEN obj[path] ELSE Undefined

----------------------------------------------------------------------------
(* References to node objects.  Each array of node objects, the caller's  *)
(* or a run's, is one generation of the heap; a generation nothing refers  *)
(* to any more is collected and its number used again.                     *)

Ref(g, i) == [type |-> "object", gen |-> g, idx |-> i]
Deref(h, ref) == h[ref.gen][ref.idx]

\* generations that can be live at once: the caller's array, the run being
\* published, the run the exposed links resolve to and the run their
\* previousSource/previousTarget point at
Generations == 1..4

----------------------------------------------------------------------------
(* Functions a caller passes as accessors.  Each is one representative of  *)
(* the functions of its argument a caller may write.                       *)

\* the caller's function `name` applied to `arg`
Apply(name, arg) ==
    CASE name = "distanceOfLink" -> Num(arg.distance.value + 5)
      [] name = "colorOfNode" -> Str(IF arg.id = "a" THEN "red" ELSE "blue")
      [] name = "thicknessOfLink" -> Num(arg.distance.value \div 10)
      [] name = "widthOfNode" -> Num(IF arg.id = "a" THEN 1 ELSE 2)
      [] OTHER -> Undefined

\* a getter the code built or was given, called with one argument
Call(f, arg) ==
    CASE f.fn = "constant" -> f.value
      [] f.fn = "get" -> Get(arg, f.path)
      [] OTHER -> Apply(f.fn, arg)

----------------------------------------------------------------------------
(* computeForces (hooks.ts)                                                *)

\* forceLink().distance(_): a function is kept, anything else becomes the
\* constant +_
linkForceDistance(getLinkDistance) ==
    IF getLinkDistance.type = "function"
    THEN getLinkDistance
    ELSE [type |-> "function", fn |-> "constant", value |-> Num(ToNumber(getLinkDistance))]

computeForces(linkDistance, repulsivity, distanceMin, distanceMax, center) ==
    LET getLinkDistance ==
            IF linkDistance.type = "function" THEN linkDistance
            ELSE IF linkDistance.type = "number" THEN linkDistance
            ELSE IF linkDistance.type = "string"
                 THEN [type |-> "function", fn |-> "get", path |-> linkDistance.value]
            ELSE Undefined
    IN  [link |-> [distance |-> linkForceDistance(getLinkDistance)],
         charge |-> [strength |-> 0 - repulsivity,
                     distanceMin |-> distanceMin,
                     distanceMax |-> distanceMax],
         center |-> [x |-> center[1], y |-> center[2]]]

\* the link force's distance accessor applied to a link: +distance(link)
linkDistanceOf(distance, link) == ToNumber(Call(distance, link))

----------------------------------------------------------------------------
(* d3-force, as useNetwork drives it (hooks.ts, the effect).  `ns` is the  *)
(* array of node objects the simulation was given and mutates, `ls` the    *)
(* array of link objects.                                                  *)

\* index 0, 1, 2, ... start on a spiral around the origin
initialX(i) == CASE i = 0 -> 7 [] i = 1 -> 0 - 9 [] i = 2 -> 1 [] OTHER -> 4 * i
initialY(i) == CASE i = 0 -> 0 [] i = 1 -> 8 [] i = 2 -> 0 - 16 [] OTHER -> 5 * i

\* whether an object has numbers for both of two properties
HasNumbers(obj, f1, f2) == ~IsNaN(NumField(obj, f1)) /\ ~IsNaN(NumField(obj, f2))

\* forceSimulation(nodes): every node gets its index; x, y and vx, vy are
\* set only where they are not numbers yet
initializeNodes(ns) ==
    Tuple([i \in 1..Len(ns) |->
        Merge(ns[i],
              [index |-> i - 1,
               x |-> IF HasNumbers(ns[i], "x", "y") THEN ns[i].x ELSE initialX(i - 1),
               y |-> IF HasNumbers(ns[i], "x", "y") THEN ns[i].y ELSE initialY(i - 1),
               vx |-> IF HasNumbers(ns[i], "vx", "vy") THEN ns[i].vx ELSE 0,
               vy |-> IF HasNumbers(ns[i], "vx", "vy") THEN ns[i].vy ELSE 0])])

\* the node the link force's id accessor (d => d.id) maps `id` to: a Map
\* built from the nodes in order, so the last node with an id wins; 0 when
\* no node has the id
nodeById(ns, id) ==
    IF \E i \in 1..Len(ns) : ns[i].id = id
    THEN CHOOSE i \in 1..Len(ns) :
            /\ ns[i].id = id
            /\ \A j \in (i + 1)..Len(ns) : ns[j].id # id
    ELSE 0

\* the index of the node a link end resolves to: an end that is an object
\* already is kept, an id is looked up; 0 when no node has the id
resolveEnd(ns, end) ==
    IF end.type = "object" THEN end.idx ELSE nodeById(ns, end.value)

\* link l with its end f replaced by the node it resolves to
setEnd(ns, refs, l, f) == With(l, f, refs[resolveEnd(ns, l[f])])

\* the links with an end that resolves to no node
missingEnds(ns, ls) ==
    {i \in 1..Len(ls) : resolveEnd(ns, ls[i].source) = 0 \/ resolveEnd(ns, ls[i].target) = 0}

\* an initialize() that leaves out the links with an end that resolves to
\* no node, and goes on
initializeLinksDropping(ns, refs, ls) ==
    [threw |-> FALSE,
     links |-> Tuple([i \in 1..Cardinality({j \in 1..Len(ls) : j \notin missingEnds(ns, ls)}) |->
                  setEnd(ns, refs,
                         setEnd(ns, refs,
                                With(ls[CHOOSE j \in 1..Len(ls) :
                                          /\ j \notin missingEnds(ns, ls)
                                          /\ Cardinality({k \in 1..j : k \notin missingEnds(ns, ls)}) = i],
                                     "index", i - 1),
                                "source"),
                         "target")])]

\* forceLink's initialize(): each link in turn gets its index and has a
\* source, then a target, that is not an object yet replaced by the node of
\* that id; a missing node throws ("node not found") and leaves the links
\* as they were changed up to there
initializeLinks(ns, refs, ls) ==
    [threw |-> missingEnds(ns, ls) # {},
     links |-> Tuple([i \in 1..Len(ls) |->
                  IF \E j \in missingEnds(ns, ls) : j < i THEN ls[i]
                  ELSE IF resolveEnd(ns, ls[i].source) = 0
                  THEN With(ls[i], "index", i - 1)
                  ELSE IF resolveEnd(ns, ls[i].target) = 0
                  THEN setEnd(ns, refs, With(ls[i], "index", i - 1), "source")
                  ELSE setEnd(ns, refs,
                              setEnd(ns, refs, With(ls[i], "index", i - 1), "source"),
                              "target")])]

\* a zero offset is jiggled off zero
Jiggle(d) == IF d = 0 THEN 1 ELSE d

\* from a link's source to its target along one axis, where the velocities
\* are about to take them (p is "x" or "y", v is "vx" or "vy")
linkOffset(ns, link, p, v) ==
    Jiggle(Minus(Plus(ns[link.target.idx][p], ns[link.target.idx][v]),
                 Plus(ns[link.source.idx][p], ns[link.source.idx][v])))

linkLength(ns, link) ==
    Plus(Abs(linkOffset(ns, link, "x", "vx")), Abs(linkOffset(ns, link, "y", "vy")))

\* half of what the link is longer than its distance, along one axis
linkPull(ns, link, distance, p, v) ==
    Div(Times(linkOffset(ns, link, p, v),
              Minus(linkLength(ns, link), linkDistanceOf(distance, link))),
        Times(2, linkLength(ns, link)))

\* the velocity v of node i after the link pulled its target back and its
\* source forward
pulled(ns, link, distance, i, p, v) ==
    Plus(Minus(ns[i][v],
               IF i = link.target.idx THEN linkPull(ns, link, distance, p, v) ELSE 0),
         IF i = link.source.idx THEN linkPull(ns, link, distance, p, v) ELSE 0)

\* what the link force does for one link
pullLink(ns, link, distance) ==
    Tuple([i \in 1..Len(ns) |->
        [ns[i] EXCEPT !.vx = pulled(ns, link, distance, i, "x", "vx"),
                      !.vy = pulled(ns, link, distance, i, "y", "vy")]])

\* the link force: the links from the i-th on, in turn
RECURSIVE linkForce(_, _, _, _)
linkForce(ns, ls, distance, i) ==
    IF i > Len(ls) THEN ns
    ELSE linkForce(pullLink(ns, ls[i], distance), ls, distance, i + 1)

\* from node i to node j along one axis
nodeOffset(ns, i, j, p) == Jiggle(Minus(ns[j][p], ns[i][p]))

nodeDistance(ns, i, j) == Plus(Abs(nodeOffset(ns, i, j, "x")), Abs(nodeOffset(ns, i, j, "y")))

\* what node j adds to the velocity of node i along one axis: nothing from
\* distanceMax on, and as if at distanceMin when nearer than that
chargeOf(ns, charge, i, j, p) ==
    IF j = i THEN 0
    ELSE IF IsNaN(nodeDistance(ns, i, j)) THEN NaN
    ELSE IF nodeDistance(ns, i, j) >= charge.distanceMax THEN 0
    ELSE Div(Times(nodeOffset(ns, i, j, p), charge.strength),
             IF nodeDistance(ns, i, j) < charge.distanceMin
             THEN charge.distanceMin ELSE nodeDistance(ns, i, j))

\* term[1] + ... + term[n]
RECURSIVE Sum(_, _)
Sum(term, n) == IF n = 0 THEN 0 ELSE Plus(Sum(term, n - 1), term[n])

\* the many-body force: positions are read, velocities written
chargeForce(ns, charge) ==
    Tuple([i \in 1..Len(ns) |->
        [ns[i] EXCEPT
            !.vx = Plus(@, Sum(Tuple([j \in 1..Len(ns) |-> chargeOf(ns, charge, i, j, "x")]), Len(ns))),
            !.vy = Plus(@, Sum(Tuple([j \in 1..Len(ns) |-> chargeOf(ns, charge, i, j, "y")]), Len(ns)))]])

\* the mean of the nodes' positions along one axis
meanPosition(ns, p) == Div(Sum(Tuple([i \in 1..Len(ns) |-> ns[i][p]]), Len(ns)), Len(ns))

\* the centering force: shifts every node so that the mean position is the
\* center
centerForce(ns, center) ==
    IF Len(ns) = 0 THEN ns
    ELSE Tuple([i \in 1..Len(ns) |->
            [ns[i] EXCEPT !.x = Minus(@, Minus(meanPosition(ns, "x"), center.x)),
                          !.y = Minus(@, Minus(meanPosition(ns, "y"), center.y))]])

\* a velocity after one step's decay
decay(v) == Div(Times(v, 3), 5)

\* velocities decay and move the nodes
moveNodes(ns) ==
    Tuple([i \in 1..Len(ns) |->
        [ns[i] EXCEPT !.vx = decay(@), !.vy = decay(@),
                      !.x = Plus(@, decay(ns[i].vx)), !.y = Plus(@, decay(ns[i].vy))]])

\* one step of simulation.tick(): the forces in the order they were added
\* (link, charge, center), then the move
tick(ns, ls, forces) ==
    moveNodes(centerForce(chargeForce(linkForce(ns, ls, forces.link.distance, 1),
                                      forces.charge),
                          forces.center))

\* simulation.tick(iterations)
RECURSIVE tickTimes(_, _, _, _)
tickTimes(ns, ls, forces, iterations) ==
    IF iterations <= 0 THEN ns
    ELSE tickTimes(tick(ns, ls, forces), ls, forces, iterations - 1)

\* the simulation once its nodes are placed and its links initialized: the
\* link force throws before any step, or all steps are taken
simulate(placed, linked, forces, iterations) ==
    IF linked.threw
    THEN [threw |-> TRUE, nodes |-> placed, links |-> linked.links, ticks |-> 0]
    ELSE [threw |-> FALSE,
          nodes |-> tickTimes(placed, linked.links, forces, iterations),
          links |-> linked.links,
          ticks |-> iterations]

\* forceSimulation(nodes).force('link', ...).force('charge', ...)
\*     .force('center', ...).stop(); simulation.tick(iterations)
forceSimulation(ns, refs, ls, forces, iterations) ==
    simulate(initializeNodes(ns), initializeLinks(initializeNodes(ns), refs, ls),
             forces, iterations)

----------------------------------------------------------------------------
(* The props a caller passes to useNetwork.                                *)

\* { from: path }: an inherited color (@nivo/colors)
From(path) == [type |-> "object", from |-> path]

DefaultForce ==
    [linkDistance |-> Num(30), repulsivity |-> 10, distanceMin |-> 1,
     distanceMax |-> 1000, center |-> <<0, 0>>, iterations |-> 1]

\* the force parameters a caller passes: the default, or one of them changed.
\* null stands for the linkDistance values that are no number, function or
\* string.
ForceConfigs ==
    {[DefaultForce EXCEPT !.linkDistance = d] :
        d \in {Num(30), Fn("distanceOfLink"), Str("distance"), Null}}
    \cup {[DefaultForce EXCEPT !.repulsivity = 40],
          [DefaultForce EXCEPT !.distanceMin = 50],
          [DefaultForce EXCEPT !.distanceMax = 10],
          [DefaultForce EXCEPT !.center = <<5, 3>>]}
    \cup {[DefaultForce EXCEPT !.iterations = n] : n \in 1..MaxIterations}

DefaultStyle ==
    [nodeColor |-> Str("red"), nodeBorderWidth |-> Num(1),
     nodeBorderColor |-> Str("black"), linkThickness |-> Num(1),
     linkColor |-> Str("grey")]

\* the style parameters a caller passes: the default, or one of them changed
StyleConfigs ==
    {DefaultStyle,
     [DefaultStyle EXCEPT !.nodeColor = Fn("colorOfNode")],
     [DefaultStyle EXCEPT !.nodeBorderWidth = Num(3)],
     [DefaultStyle EXCEPT !.nodeBorderWidth = Fn("widthOfNode")],
     [DefaultStyle EXCEPT !.nodeBorderColor = From("color")],
     [DefaultStyle EXCEPT !.linkThickness = Fn("thicknessOfLink")],
     [DefaultStyle EXCEPT !.linkColor = From("color")]}

\* the arrays of node objects a caller passes: the ids are unique
NodeArrays ==
    {[i \in 1..Len(ids) |-> [id |-> ids[i]]] :
        ids \in {s \in UNION {[1..n -> NodeIds] : n \in 0..Cardinality(NodeIds)} :
                    \A i, j \in DOMAIN s : i # j => s[i] # s[j]}}

InputLink(s, t) == [source |-> Str(s), target |-> Str(t), distance |-> Num(20)]

\* the arrays of link objects a caller passes: no link, one link, a link
\* to the id of no node, two links
LinkArrays ==
    {<<>>, <<InputLink("a", "b")>>, <<InputLink("b", "a")>>, <<InputLink("a", "z")>>,
     <<InputLink("a", "b"), InputLink("b", "a")>>}

DefaultNodeIds == <<"a", "b">>
DefaultLinks == <<InputLink("a", "b")>>

DefaultNodes == [i \in 1..Len(DefaultNodeIds) |-> [id |-> DefaultNodeIds[i]]]

Config(force, style) == [force |-> force, style |-> style]

ForceFields == {"linkDistance", "repulsivity", "distanceMin", "distanceMax",
                "center", "iterations"}
NodeStyleFields == {"nodeColor", "nodeBorderWidth", "nodeBorderColor"}
LinkStyleFields == {"linkThickness", "linkColor"}

\* the props object: `nodes` holds references to the caller's node objects,
\* `links` the caller's link objects
Props(nodes, links, c) ==
    [f \in {"nodes", "links"} \cup ForceFields \cup NodeStyleFields \cup LinkStyleFields |->
        CASE f = "nodes" -> nodes
          [] f = "links" -> links
          [] f \in ForceFields -> c.force[f]
          [] OTHER -> c.style[f]]

----------------------------------------------------------------------------
(* The heap of node objects.                                               *)

\* h with generation g holding objs
Allocate(h, g, objs) == [h EXCEPT ![g] = objs]

\* h after objs[i] was written through refs[i], for every i
Store(h, refs, objs) ==
    [g \in Generations |->
        Tuple([k \in 1..Len(h[g]) |->
            IF \E i \in 1..Len(refs) : refs[i] = Ref(g, k)
            THEN objs[CHOOSE i \in 1..Len(refs) : refs[i] = Ref(g, k)]
            ELSE h[g][k]])]

\* the generations an array of links (or null) refers to
GensOfLinks(ls) ==
    IF ls.type = "null" THEN {}
    ELSE UNION {{l[f].gen : f \in {f \in {"source", "target", "previousSource",
                                          "previousTarget"} \cap DOMAIN l :
                                      l[f].type = "object"}} :
                l \in {ls.items[i] : i \in 1..Len(ls.items)}}

GensOfRefs(refs) == {refs[i].gen : i \in 1..Len(refs)}

\* the generations reachable from the props, the state and the memoised output
LiveGens(p, cn, cl, el) ==
    GensOfRefs(p.nodes)
    \cup (IF cn.type = "null" THEN {} ELSE GensOfRefs(cn.items))
    \cup GensOfLinks(cl) \cup GensOfLinks(Arr(p.links)) \cup GensOfLinks(el)

Collect(h, live) == [g \in Generations |-> IF g \in live THEN h[g] ELSE <<>>]

FreeGens(live) == Generations \ live

\* the k-th generation after g, going round
After(g, k) == ((g - 1 + k) % Cardinality(Generations)) + 1

\* the generation a new array of node objects gets: the first unused one
\* after g, going round
Fresh(live, g) ==
    After(g, CHOOSE k \in 1..Cardinality(Generations) :
                /\ After(g, k) \notin live
                /\ \A j \in 1..(k - 1) : After(g, j) \in live)

\* the generation of the objects of an array of references (of its first
\* one), 1 for an empty array or for null
GenOf(refs) == IF Len(refs) = 0 THEN 1 ELSE refs[1].gen

----------------------------------------------------------------------------
(* useNetwork (hooks.ts): the layout effect.                               *)

\* no copy: the simulation gets the caller's node objects
nodesShared(h, nodes, g) ==
    [refs |-> nodes,
     objs |-> Tuple([i \in 1..Len(nodes) |-> Deref(h, nodes[i])])]

\* nodes.map(node => ({ ...node })): new objects, of generation g, with the
\* properties of the caller's
nodesCopy(h, nodes, g) ==
    [refs |-> Tuple([i \in 1..Len(nodes) |-> Ref(g, i)]),
     objs |-> Tuple([i \in 1..Len(nodes) |-> Deref(h, nodes[i])])]

\* links.map(link => ({ id: `${link.source}.${link.target}`, ...link })):
\* new objects; a link's own id wins over the derived one
linksCopy(links) ==
    [aliased |-> FALSE,
     objs |-> Tuple([i \in 1..Len(links) |->
                 IF "id" \in DOMAIN links[i] THEN links[i]
                 ELSE With(links[i], "id",
                           links[i].source.value \o "." \o links[i].target.value)])]

\* a lookup that takes the first of the previous nodes, whatever its id
previousNodeFirst(h, cn, id) ==
    IF cn.type = "null" THEN Undefined
    ELSE IF Len(cn.items) > 0 THEN cn.items[1]
    ELSE Undefined

\* currentNodes ? currentNodes.find(n => n.id === id) : undefined
previousNode(h, cn, id) ==
    IF cn.type = "null" THEN Undefined
    ELSE IF \E i \in 1..Len(cn.items) : Deref(h, cn.items[i]).id = id
    THEN cn.items[CHOOSE i \in 1..Len(cn.items) :
                    /\ Deref(h, cn.items[i]).id = id
                    /\ \A j \in 1..(i - 1) : Deref(h, cn.items[j]).id # id]
    ELSE Undefined

\* the links handed to setCurrentLinks: each link object gets
\* previousSource and previousTarget from the currentNodes of the render
\* that scheduled the effect
withPrevious(h, cn, ls) ==
    Tuple([i \in 1..Len(ls) |->
        Merge(ls[i],
              [previousSource |-> previousNode(h, cn, Deref(h, ls[i].source).id),
               previousTarget |-> previousNode(h, cn, Deref(h, ls[i].target).id)])])

\* the body of the effect, run on heap h with props p and the state cn of
\* the render that scheduled it; g is an unused generation.  Yields the
\* heap and the caller's links as the run leaves them, whether it threw,
\* and the values it passed to setCurrentNodes and setCurrentLinks.
layoutEffect(h, p, cn, g) ==
    LET forces == computeForces(p.linkDistance, p.repulsivity, p.distanceMin,
                                p.distanceMax, p.center)
        nodes == nodesCopy(h, p.nodes, g)
        links == linksCopy(p.links)
        sim == forceSimulation(nodes.objs, nodes.refs, links.objs, forces, p.iterations)
        hStart == IF \E i \in 1..Len(nodes.refs) : nodes.refs[i].gen = g
                  THEN Allocate(h, g, nodes.objs) ELSE h
        hEnd == Store(hStart, nodes.refs, sim.nodes)
        published == IF sim.threw THEN sim.links ELSE withPrevious(hEnd, cn, sim.links)
    IN  [threw |-> sim.threw,
         ticks |-> sim.ticks,
         heap |-> hEnd,
         inputLinks |-> IF links.aliased THEN published ELSE p.links,
         setNodes |-> Arr(nodes.refs),
         setLinks |-> Arr(published)]

----------------------------------------------------------------------------
(* useNetwork (hooks.ts): the styling memos.                               *)

constantGetter(v) == [type |-> "function", fn |-> "constant", value |-> v]

\* a getter that takes every color for a constant
useNodeColorConstant(color) == constantGetter(color)

useNodeColor(color) == IF color.type = "function" THEN color ELSE constantGetter(color)

useLinkThickness(thickness) ==
    IF thickness.type = "function" THEN thickness ELSE constantGetter(thickness)

\* useInheritedColor(config, theme): a plain color for every entity, or the
\* property `from` names, read off the entity
useInheritedColor(config) ==
    IF config.type = "object"
    THEN [type |-> "function", fn |-> "get", path |-> config.from]
    ELSE constantGetter(config)

\* a memo that answers the empty array while there is no state
computeEnhancedNodesOrEmpty(h, cn, p) ==
    IF cn.type = "null" THEN Arr(<<>>)
    ELSE Arr(Tuple([i \in 1..Len(cn.items) |->
                Merge(Deref(h, cn.items[i]),
                      [color |-> Call(useNodeColor(p.nodeColor), Deref(h, cn.items[i])),
                       borderWidth |-> p.nodeBorderWidth,
                       borderColor |-> Call(useInheritedColor(p.nodeBorderColor),
                                            Deref(h, cn.items[i]))])]))

\* the body of the enhancedNodes memo
computeEnhancedNodes(h, cn, p) ==
    IF cn.type = "null" THEN Null
    ELSE Arr(Tuple([i \in 1..Len(cn.items) |->
                Merge(Deref(h, cn.items[i]),
                      [color |-> Call(useNodeColor(p.nodeColor), Deref(h, cn.items[i])),
                       borderWidth |-> p.nodeBorderWidth,
                       borderColor |-> Call(useInheritedColor(p.nodeBorderColor),
                                            Deref(h, cn.items[i]))])]))

\* the body of the enhancedLinks memo
computeEnhancedLinks(cl, p) ==
    IF cl.type = "null" THEN Null
    ELSE Arr(Tuple([i \in 1..Len(cl.items) |->
                Merge(cl.items[i],
                      [thickness |-> Call(useLinkThickness(p.linkThickness), cl.items[i]),
                       color |-> Call(useInheritedColor(p.linkColor), cl.items[i])])]))

----------------------------------------------------------------------------
(* The life of one mounted useNetwork.                                     *)

\* dependencies of the effect that include the style parameters
effectDepsWithStyle(p, nodesChanged, linksChanged) ==
    nodesChanged \/ linksChanged
        \/ \E f \in ForceFields \cup NodeStyleFields \cup LinkStyleFields : p[f] # props[f]

\* the dependencies of the effect: whether one of them changed since the
\* previous render
effectDepsChanged(p, nodesChanged, linksChanged) ==
    nodesChanged \/ linksChanged \/ \E f \in ForceFields : p[f] # props[f]

\* the enhancedNodes memo: recomputed when currentNodes was set or a node
\* style parameter changed since the previous render
memoEnhancedNodes(p, h) ==
    IF statePending \/ \E f \in NodeStyleFields : p[f] # props[f]
    THEN computeEnhancedNodes(h, currentNodes, p)
    ELSE enhancedNodes

\* a memo of the links that leaves currentLinks out of its dependencies
memoEnhancedLinksOfStyle(p) ==
    IF enhancedLinks = Null \/ \E f \in LinkStyleFields : p[f] # props[f]
    THEN computeEnhancedLinks(currentLinks, p)
    ELSE enhancedLinks

\* the enhancedLinks memo: recomputed when currentLinks was set or a link
\* style parameter changed since the previous render
memoEnhancedLinks(p) ==
    IF statePending \/ \E f \in LinkStyleFields : p[f] # props[f]
    THEN computeEnhancedLinks(currentLinks, p)
    ELSE enhancedLinks

\* one render of the hook with props p on heap h: the effect is scheduled
\* when one of its dependencies changed, and the two memos give the output
Render(p, h, nodesChanged, linksChanged) ==
    /\ props' = p
    /\ effectPending' = effectDepsChanged(p, nodesChanged, linksChanged)
    /\ enhancedNodes' = memoEnhancedNodes(p, h)
    /\ enhancedLinks' = memoEnhancedLinks(p)
    /\ statePending' = FALSE
    /\ heap' = Collect(h, LiveGens(p, currentNodes, currentLinks, enhancedLinks'))
    /\ UNCHANGED <<mounted, currentNodes, currentLinks, ticks, transitions>>

KeepArray == [keep |-> TRUE]
NewArray(a) == [keep |-> FALSE, value |-> a]

\* the caller renders the component again: with the same or a new array of
\* nodes, the same or a new array of links, and force and style parameters
Rerender(ns, ls, c) ==
    /\ mounted = "mounted"
    /\ ~effectPending
    /\ LET live == LiveGens([props EXCEPT !.nodes = <<>>], currentNodes, currentLinks,
                            enhancedLinks)
           g == Fresh(live, Cardinality(Generations))
           nodes == IF ns.keep THEN props.nodes
                    ELSE [i \in 1..Len(ns.value) |-> Ref(g, i)]
           links == IF ls.keep THEN props.links ELSE ls.value
           h == IF ns.keep \/ Len(ns.value) = 0 THEN heap
                ELSE Allocate(heap, g, ns.value)
       IN  /\ FreeGens(live) # {}
           /\ Render(Props(nodes, links, c), h, ~ns.keep, ~ls.keep)

\* the re-render the effect's state updates ask for, with unchanged props
StateRender ==
    /\ mounted = "mounted"
    /\ ~effectPending
    /\ statePending
    /\ Render(props, heap, FALSE, FALSE)

\* the effect scheduled by the latest render runs to its end
RunEffect ==
    /\ mounted = "mounted"
    /\ effectPending
    /\ FreeGens(LiveGens(props, currentNodes, currentLinks, enhancedLinks)) # {}
    /\ LET live == LiveGens(props, currentNodes, currentLinks, enhancedLinks)
           cur == IF currentNodes.type = "null" THEN 1 ELSE GenOf(currentNodes.items)
           run == layoutEffect(heap, props, currentNodes, Fresh(live, cur))
           p == [props EXCEPT !.links = run.inputLinks]
       IN  /\ props' = p
           /\ effectPending' = FALSE
           /\ ticks' = run.ticks
           /\ IF run.threw
              THEN /\ mounted' = "crashed"
                   /\ heap' = Collect(run.heap, LiveGens(p, currentNodes, currentLinks,
                                                         enhancedLinks))
                   /\ UNCHANGED <<currentNodes, currentLinks, statePending>>
              ELSE /\ currentNodes' = run.setNodes
                   /\ currentLinks' = run.setLinks
                   /\ statePending' = TRUE
                   /\ heap' = Collect(run.heap, LiveGens(p, run.setNodes, run.setLinks,
                                                         enhancedLinks))
                   /\ UNCHANGED mounted
    /\ UNCHANGED <<enhancedNodes, enhancedLinks, transitions>>

EmptyHeap == [g \in Generations |-> <<>>]

\* the first render of a mounted component with nodes ns, links ls and
\* parameters c: nothing computed yet, the effect scheduled
Mounted(ns, ls, c) ==
    /\ props = Props([i \in 1..Len(ns) |-> Ref(1, i)], ls, c)
    /\ heap = Allocate(EmptyHeap, 1, ns)
    /\ mounted = "mounted"
    /\ effectPending = TRUE
    /\ statePending = FALSE
    /\ currentNodes = Null
    /\ currentLinks = Null
    /\ enhancedNodes = computeEnhancedNodes(heap, Null, props)
    /\ enhancedLinks = computeEnhancedLinks(Null, props)
    /\ ticks = 0
    /\ transitions = Null

\* the array the caller holds, or a new one
Passed(arrays) == {KeepArray} \cup {NewArray(a) : a \in arrays}

\* the ids of the nodes and the links of the props after a render that
\* passes ns and ls
IsDefaultGraph(ns, ls) ==
    /\ IF ns.keep
       THEN [i \in 1..Len(props.nodes) |-> Deref(heap, props.nodes[i]).id] = DefaultNodeIds
       ELSE ns.value = DefaultNodes
    /\ IF ls.keep THEN props.links = DefaultLinks ELSE ls.value = DefaultLinks

(* A caller that changes the graph and the style: any graph with the       *)
(* default style, or the default graph with any style; the force           *)
(* parameters stay the default ones.                                       *)

Init ==
    \E ns \in NodeArrays, ls \in LinkArrays, style \in StyleConfigs :
        /\ style = DefaultStyle \/ (ns = DefaultNodes /\ ls = DefaultLinks)
        /\ Mounted(ns, ls, Config(DefaultForce, style))

Next ==
    \/ \E style \in StyleConfigs, ns \in Passed(NodeArrays), ls \in Passed(LinkArrays) :
          /\ style = DefaultStyle \/ IsDefaultGraph(ns, ls)
          /\ Rerender(ns, ls, Config(DefaultForce, style))
    \/ StateRender
    \/ RunEffect

Spec == Init /\ [][Next]_vars

(* A caller that changes the force parameters of the default graph.        *)

InitForces ==
    \E force \in ForceConfigs : Mounted(DefaultNodes, DefaultLinks, Config(force, DefaultStyle))

NextForces ==
    \/ \E force \in ForceConfigs,
          ns \in Passed({DefaultNodes}), ls \in Passed({DefaultLinks}) :
          Rerender(ns, ls, Config(force, DefaultStyle))
    \/ StateRender
    \/ RunEffect

SpecForces == InitForces /\ [][NextForces]_vars

----------------------------------------------------------------------------
(* NetworkNodes (NetworkNodes.tsx): the transitions of the rendered nodes. *)

getEnterTransition(node) ==
    [x |-> node.x, y |-> node.y, radius |-> node.radius, color |-> node.color,
     borderWidth |-> node.borderWidth, borderColor |-> node.borderColor, scale |-> 0]

getRegularTransition(node) ==
    [x |-> node.x, y |-> node.y, radius |-> node.radius, color |-> node.color,
     borderWidth |-> node.borderWidth, borderColor |-> node.borderColor, scale |-> 1]

\* an exit that keeps the full scale
getExitTransitionFullScale(node) ==
    [x |-> node.x, y |-> node.y, radius |-> node.radius, color |-> node.color,
     borderWidth |-> node.borderWidth, borderColor |-> node.borderColor, scale |-> 1]

getExitTransition(node) ==
    [x |-> node.x, y |-> node.y, radius |-> node.radius, color |-> node.color,
     borderWidth |-> node.borderWidth, borderColor |-> node.borderColor, scale |-> 0]

NoTransition == [phase |-> "none"]

\* whether one of the items has the key
HasKey(items, key) == \E i \in 1..Len(items) : items[i].id = key

ItemOf(items, key) == items[CHOOSE i \in 1..Len(items) : items[i].id = key]

\* one of the three functions of NetworkNodes, applied to a node
callProp(prop, node) ==
    CASE prop = "enterTransition" -> getEnterTransition(node)
      [] prop = "regularTransition" -> getRegularTransition(node)
      [] prop = "exitTransition" -> getExitTransition(node)

\* the transition useTransition keeps for a key, from the one of the
\* previous render (prev, NoTransition when there was none) and the items
\* of this render: a new transition enters, from `initial` on the first
\* render and from `from` later; one whose key is still there is updated
\* with the new item, or enters again when it was leaving; one whose key is
\* gone leaves, with the item it had
transitionOf(first, prev, items, key, config) ==
    IF HasKey(items, key)
    THEN IF prev.phase = "none"
         THEN [phase |-> "enter", item |-> ItemOf(items, key),
               from |-> IF first THEN callProp(config.initial, ItemOf(items, key))
                        ELSE callProp(config.from, ItemOf(items, key)),
               to |-> callProp(config.enter, ItemOf(items, key))]
         ELSE IF prev.phase = "leave"
         THEN [phase |-> "enter", item |-> ItemOf(items, key),
               from |-> callProp(config.from, ItemOf(items, key)),
               to |-> callProp(config.enter, ItemOf(items, key))]
         ELSE [phase |-> "update", item |-> ItemOf(items, key),
               from |-> prev.from,
               to |-> callProp(config.update, ItemOf(items, key))]
    ELSE IF prev.phase \in {"none", "leave"} THEN prev
    ELSE [phase |-> "leave", item |-> prev.item, from |-> prev.from,
          to |-> callProp(config.leave, prev.item)]

\* useTransition(items, {keys: node => node.id, initial, from, enter,
\* update, leave}): the transitions by key, after a render with these items;
\* prev is null on the first render
useTransition(prev, items, config) ==
    [type |-> "transitions",
     of |-> [key \in NodeIds |->
                transitionOf(prev = Null,
                             IF prev = Null THEN NoTransition ELSE prev.of[key],
                             items, key, config)]]

\* NetworkNodes is rendered with these nodes
NetworkNodes(nodes) ==
    /\ transitions' = useTransition(transitions, nodes,
                                    [initial |-> "regularTransition",
                                     from |-> "enterTransition",
                                     enter |-> "regularTransition",
                                     update |-> "regularTransition",
                                     leave |-> "exitTransition"])
    /\ UNCHANGED hookVars

\* the spring of a leaving node comes to rest: its transition expires and
\* the next render drops it
Expire(key) ==
    /\ transitions # Null
    /\ transitions.of[key].phase = "leave"
    /\ transitions' = [transitions EXCEPT !.of[key] = NoTransition]
    /\ UNCHANGED hookVars

\* the computed nodes NetworkNodes is given: a node at one of two positions,
\* with the color of the position
ComputedNodesOf(id) ==
    {[id |-> id, x |-> x, y |-> x + 7, radius |-> 4,
      color |-> Str(IF x = 0 THEN "red" ELSE "blue"),
      borderWidth |-> Num(2), borderColor |-> Str("black")] : x \in {0, 10}}

ComputedNodeArrays ==
    {<<>>}
    \cup {<<n>> : n \in UNION {ComputedNodesOf(id) : id \in NodeIds}}
    \cup {<<n, m>> : n \in ComputedNodesOf("a"), m \in ComputedNodesOf("b")}
    \cup {<<m, n>> : n \in ComputedNodesOf("a"), m \in ComputedNodesOf("b")}

InitNodes == Mounted(DefaultNodes, DefaultLinks, Config(DefaultForce, DefaultStyle))

NextNodes ==
    \/ \E nodes \in ComputedNodeArrays : NetworkNodes(nodes)
    \/ \E key \in NodeIds : Expire(key)

SpecNodes == InitNodes /\ [][NextNodes]_vars

----------------------------------------------------------------------------
(* Properties of useNetwork.                                               *)

Idle == mounted = "mounted" /\ ~effectPending /\ ~statePending

IdsOf(h, refs) == {Deref(h, refs[i]).id : i \in 1..Len(refs)}

\* the ids a link of the caller names that no node of the caller has
Dangling(h, p) ==
    {end.value : end \in {p.links[i].source : i \in 1..Len(p.links)}
                         \cup {p.links[i].target : i \in 1..Len(p.links)}}
        \ IdsOf(h, p.nodes)

\* C1: the hook exposes null, which is not the empty array, for nodes and
\* for links as long as no layout run has set the state; once a run has
\* completed and its result is rendered both are arrays, with as many
\* entries as the caller passed nodes and links (none for an empty input);
\* and in every state the nodes are null exactly when the links are.
C1_NullUntilFirstRun ==
    /\ Null # Arr(<<>>)
    /\ (enhancedNodes = Null) <=> (enhancedLinks = Null)
    /\ currentNodes = Null => (enhancedNodes = Null /\ enhancedLinks = Null)
    /\ Idle => /\ enhancedNodes.type = "array"
               /\ enhancedLinks.type = "array"
               /\ Len(enhancedNodes.items) = Len(props.nodes)
               /\ Len(enhancedLinks.items) = Len(props.links)

\* a first run on an empty graph has completed: both outputs are the
\* empty array
C1_Witness ==
    /\ Idle
    /\ enhancedNodes = Arr(<<>>)
    /\ enhancedLinks = Arr(<<>>)
    /\ ticks > 0

\* C2: a run on links of which one names an id that no node has ends with
\* an error before any tick, and publishes nothing: the state and the
\* exposed nodes and links are what they were (null on a first run).
C2_DanglingLinkFails ==
    [][(effectPending /\ Dangling(heap, props) # {})
          => /\ mounted' = "crashed"
             /\ ticks' = 0
             /\ currentNodes' = currentNodes
             /\ currentLinks' = currentLinks
             /\ enhancedNodes' = enhancedNodes
             /\ enhancedLinks' = enhancedLinks]_vars

\* a run on a dangling link failed after an earlier run had published
C2_Witness ==
    /\ mounted = "crashed"
    /\ Dangling(heap, props) # {}
    /\ ticks = 0
    /\ enhancedNodes.type = "array"
    /\ Len(enhancedNodes.items) > 0

\* C4: in every state where links are exposed, the source and the target
\* of each are nodes of the run whose nodes are exposed in that state:
\* each end has the id and the position of an exposed node.
C4_LinkEndsAreExposedNodes ==
    enhancedLinks # Null =>
        \A i \in 1..Len(enhancedLinks.items) :
            \A end \in {enhancedLinks.items[i].source, enhancedLinks.items[i].target} :
                \E k \in 1..Len(enhancedNodes.items) :
                    /\ enhancedNodes.items[k].id = Deref(heap, end).id
                    /\ enhancedNodes.items[k].x = Deref(heap, end).x
                    /\ enhancedNodes.items[k].y = Deref(heap, end).y

\* links are exposed after a run that followed a run on other nodes
C4_Witness ==
    /\ Idle
    /\ enhancedLinks # Null
    /\ \E i \in 1..Len(enhancedLinks.items) :
          /\ enhancedLinks.items[i].previousSource = Undefined
          /\ enhancedLinks.items[i].previousTarget # Undefined

\* what the run of this step has to give as the previous node of the node
\* with this id: the node with the id among those the run before it
\* published, which the run leaves as it was, and undefined when there was
\* no run before it or no such node
IsPreviousOf(previous, id) ==
    IF currentNodes = Null \/ id \notin IdsOf(heap, currentNodes.items)
    THEN previous = Undefined
    ELSE /\ \E k \in 1..Len(currentNodes.items) : currentNodes.items[k] = previous
         /\ Deref(heap, previous).id = id
         /\ Deref(heap', previous) = Deref(heap, previous)

\* C5: the links a completed run publishes have previousSource and
\* previousTarget undefined when it is the first run; on a later run they
\* are the nodes with the ids of the source and of the target among the
\* nodes of the completed run just before it, and undefined for an id that
\* run had no node of.
C5_PreviousEndsAreOfPrecedingRun ==
    [][(effectPending /\ statePending')
          => \A i \in 1..Len(currentLinks'.items) :
                /\ IsPreviousOf(currentLinks'.items[i].previousSource,
                                Deref(heap', currentLinks'.items[i].source).id)
                /\ IsPreviousOf(currentLinks'.items[i].previousTarget,
                                Deref(heap', currentLinks'.items[i].target).id)]_vars

\* a run published a link of which the source was a node of the run before
\* it, an object other than this run's, and the target was not
C5_Witness ==
    /\ statePending
    /\ \E i \in 1..Len(currentLinks.items) :
          /\ currentLinks.items[i].previousSource.type = "object"
          /\ currentLinks.items[i].previousSource # currentLinks.items[i].source
          /\ Deref(heap, currentLinks.items[i].previousSource).id
                = Deref(heap, currentLinks.items[i].source).id
          /\ currentLinks.items[i].previousTarget = Undefined

\* the value a style parameter gives an entity: the parameter itself, or
\* what it answers for the entity when it is a function
StyleOf(parameter, entity) ==
    IF parameter.type = "function" THEN Apply(parameter.fn, entity) ELSE parameter

HeldAfter(ref) == ref.idx <= Len(heap'[ref.gen])

\* C8: a run, whether it completes or fails, leaves the caller's arrays, the
\* caller's node objects and link objects, and the node objects the run
\* before it published as they were.
C8_RunWritesItsCopiesOnly ==
    [][effectPending
          => /\ props'.nodes = props.nodes
             /\ props'.links = props.links
             /\ \A i \in 1..Len(props.nodes) :
                   Deref(heap', props.nodes[i]) = Deref(heap, props.nodes[i])
             /\ currentNodes # Null =>
                   \A k \in 1..Len(currentNodes.items) :
                       HeldAfter(currentNodes.items[k]) =>
                           Deref(heap', currentNodes.items[k])
                               = Deref(heap, currentNodes.items[k])]_vars

\* a run failed after an earlier one had completed: the caller's node
\* objects have the properties the caller gave them and the published
\* nodes have their positions
C8_Witness ==
    /\ mounted = "crashed"
    /\ currentNodes # Null
    /\ Len(props.nodes) > 0
    /\ \A i \in 1..Len(props.nodes) : DOMAIN Deref(heap, props.nodes[i]) = {"id"}
    /\ \E i \in 1..Len(props.links) : props.links[i].source.type = "string"
    /\ \E k \in 1..Len(currentNodes.items) :
          "x" \in DOMAIN Deref(heap, currentNodes.items[k])

\* the caller renders again with the arrays it holds and the force
\* parameters of the previous render, and a style that differs from the
\* previous render's, while no state update waits for a render
StyleOnlyRender(style) ==
    /\ ~statePending
    /\ \E f \in NodeStyleFields \cup LinkStyleFields : style[f] # props[f]
    /\ Rerender(KeepArray, KeepArray, Config([f \in ForceFields |-> props[f]], style))

\* C9: a render that changes style parameters only schedules no layout
\* run, leaves the state and the stored node and link objects as they
\* were, and exposes nodes with the ids and positions, and links with the
\* ends, exposed before it.
C9_StyleChangeKeepsLayout ==
    [][(\E style \in StyleConfigs : StyleOnlyRender(style))
          => /\ ~effectPending'
             /\ ticks' = ticks
             /\ currentNodes' = currentNodes
             /\ currentLinks' = currentLinks
             /\ \A k \in 1..Len(currentNodes.items) :
                   Deref(heap', currentNodes.items[k]) = Deref(heap, currentNodes.items[k])
             /\ Len(enhancedNodes'.items) = Len(enhancedNodes.items)
             /\ \A k \in 1..Len(enhancedNodes.items) :
                   /\ enhancedNodes'.items[k].id = enhancedNodes.items[k].id
                   /\ enhancedNodes'.items[k].x = enhancedNodes.items[k].x
                   /\ enhancedNodes'.items[k].y = enhancedNodes.items[k].y
             /\ Len(enhancedLinks'.items) = Len(enhancedLinks.items)
             /\ \A k \in 1..Len(enhancedLinks.items) :
                   /\ enhancedLinks'.items[k].source = enhancedLinks.items[k].source
                   /\ enhancedLinks'.items[k].target = enhancedLinks.items[k].target]_vars

\* the nodes and links of the first run are exposed with a style of
\* functions: the copies of the first run are the state, and no effect and
\* no state update is waiting
C9_Witness ==
    /\ Idle
    /\ props.nodeColor.type = "function"
    /\ Len(enhancedNodes.items) = 2
    /\ Len(enhancedLinks.items) = 1
    /\ enhancedNodes.items[1].color # enhancedNodes.items[2].color
    /\ GenOf(props.nodes) = 1
    /\ GenOf(currentNodes.items) = 2

----------------------------------------------------------------------------
(* Properties of the layout under changing force parameters.               *)

\* C3 as stated: a run with a linkDistance that is no number, no function
\* and no string ends with an error before any tick and publishes nothing.
C3_BadLinkDistanceRejected ==
    [][(effectPending /\ props.linkDistance.type \notin {"number", "function", "string"})
          => /\ mounted' = "crashed"
             /\ ticks' = 0
             /\ currentNodes' = currentNodes
             /\ currentLinks' = currentLinks]_vars

\* the layout of the caller's nodes and links under the force parameters
\* and iterations of the props, computed on new objects that have the ids
\* only
LayoutFromScratch ==
    forceSimulation(Tuple([i \in 1..Len(props.nodes) |->
                              [id |-> Deref(heap, props.nodes[i]).id]]),
                    Tuple([i \in 1..Len(props.nodes) |-> Ref(1, i)]),
                    linksCopy(props.links).objs,
                    computeForces(props.linkDistance, props.repulsivity, props.distanceMin,
                                  props.distanceMax, props.center),
                    props.iterations).nodes

\* C6: the positions a completed run publishes are a function of the
\* nodes, the links, the force parameters and the iterations it was given:
\* whatever runs came before it, they are the positions of the layout
\* computed from scratch on these inputs.
C6_PositionsDependOnInputsOnly ==
    (mounted = "mounted" /\ ~effectPending /\ currentNodes # Null) =>
        /\ Len(currentNodes.items) = Len(props.nodes)
        /\ \A i \in 1..Len(currentNodes.items) :
              /\ Deref(heap, currentNodes.items[i]).id = LayoutFromScratch[i].id
              /\ Deref(heap, currentNodes.items[i]).x = LayoutFromScratch[i].x
              /\ Deref(heap, currentNodes.items[i]).y = LayoutFromScratch[i].y

\* a run with the default force parameters was completed after a run that
\* had placed a node elsewhere
C6_Witness ==
    /\ statePending
    /\ [f \in ForceFields |-> props[f]] = DefaultForce
    /\ \E i \in 1..Len(currentLinks.items) :
          /\ currentLinks.items[i].previousSource.type = "object"
          /\ Deref(heap, currentLinks.items[i].previousSource).x
                # Deref(heap, currentLinks.items[i].source).x

----------------------------------------------------------------------------
(* Properties of NetworkNodes.                                             *)

\* the values of a node record, with a scale
ValuesOf(node, scale) ==
    [x |-> node.x, y |-> node.y, radius |-> node.radius, color |-> node.color,
     borderWidth |-> node.borderWidth, borderColor |-> node.borderColor,
     scale |-> scale]

\* the node with this id was among the nodes of the previous render
WasShown(key) == transitions.of[key].phase \in {"enter", "update"}

\* C10: a render of NetworkNodes after its first matches the nodes by id
\* with those of the render before it.  A node whose id was not there
\* enters: from its own values at scale 0 to its own values at scale 1.  A
\* node whose id was there is updated: to its own values at scale 1.  A
\* node that was there and whose id is gone leaves: to the values of its
\* record at scale 0.
C10_TransitionsByKey ==
    [][\A nodes \in ComputedNodeArrays :
          (transitions # Null /\ NetworkNodes(nodes)) =>
              \A key \in NodeIds :
                  /\ (HasKey(nodes, key) /\ ~WasShown(key)) =>
                        /\ transitions'.of[key].phase = "enter"
                        /\ transitions'.of[key].from = ValuesOf(ItemOf(nodes, key), 0)
                        /\ transitions'.of[key].to = ValuesOf(ItemOf(nodes, key), 1)
                  /\ (HasKey(nodes, key) /\ WasShown(key)) =>
                        /\ transitions'.of[key].phase = "update"
                        /\ transitions'.of[key].to = ValuesOf(ItemOf(nodes, key), 1)
                  /\ (~HasKey(nodes, key) /\ WasShown(key)) =>
                        /\ transitions'.of[key].phase = "leave"
                        /\ transitions'.of[key].to
                              = ValuesOf(transitions.of[key].item, 0)]_vars

\* after a render with other nodes than the one before it, one node enters
\* from scale 0 and the other leaves
C10_Witness ==
    /\ transitions # Null
    /\ \E key \in NodeIds :
          /\ transitions.of[key].phase = "enter"
          /\ transitions.of[key].from.scale = 0
          /\ transitions.of[key].to.scale = 1
    /\ \E key \in NodeIds :
          /\ transitions.of[key].phase = "leave"
          /\ transitions.of[key].to.scale = 0

====
